---- MODULE Spec2Model ----
(***************************************************************************)
(* Model of the generator of lovable-claude-code-docker (src/generator.js): *)
(* the sandboxed filesystem gateway (validatePath and the five tool        *)
(* handlers), the tool dispatcher (executeTool), the turn loop of          *)
(* generate() with its failure tracker, and the workspace validator.       *)
(*                                                                         *)
(* A path string is a record [t, lead, segs]: the number of leading        *)
(* slashes and the "/"-separated segments.  A file's bytes are a sequence  *)
(* of content tokens, each standing for a block of text of a fixed size.   *)
(***************************************************************************)
EXTENDS Integers, Sequences, FiniteSets, TLC

VARIABLES
    fs,                   \* the filesystem: absolute path -> [dir, content]
    pc,                   \* position of generate(): see the driver section
    turnCount,            \* generate(): let turnCount
    messages,             \* generate(): const messages
    toolUses,             \* the tool_use blocks of the reply being processed
    idx,                  \* position of the for loop over toolUses
    toolResults,          \* generate(): const toolResults of the current turn
    failureTracker,       \* the module-level Map of failure counts
    circuitBreakerResult, \* generate(): let circuitBreakerResult
    returned,             \* what generate() returned (or that it threw)
    projectType,          \* generate(): const projectType
    last,                 \* gateway runs: the last call and its result
    opCount,              \* gateway runs: number of calls made
    validation,           \* generate(): const validation
    listing,              \* what printWorkspaceContents() listed
    streak                \* history: failed results in a row per (tool, path)

vars == <<fs, pc, turnCount, messages, toolUses, idx, toolResults,
          failureTracker, circuitBreakerResult, returned, projectType,
          last, opCount, validation, listing, streak>>

driverVars == <<pc, turnCount, messages, toolUses, idx, toolResults,
                failureTracker, circuitBreakerResult, returned, projectType,
                validation, listing, streak>>

-----------------------------------------------------------------------------
(* Bounds of the model *)

\* calls made in a gateway run
MaxOps == 3

-----------------------------------------------------------------------------
(* JavaScript values *)

JsUndefined == [t |-> "undefined"]
JsNumber == [t |-> "number"]
PathString(lead, segs) == [t |-> "string", lead |-> lead, segs |-> segs]
ContentString(toks) == [t |-> "string", toks |-> toks]
Args(p, c) == [t |-> "object", path |-> p, content |-> c]

\* size in bytes of the text a content token stands for
TokBytes(tok) ==
    CASE tok = "a" -> 500
      [] tok = "b" -> 700
      [] tok = "h" -> 600      \* text holding app.get('/health', ...)
      [] tok = "K8" -> 8000    \* below the 8 KiB chunk size
      [] tok = "K9" -> 9000    \* above 8 KiB
      [] tok = "K16" -> 16384  \* exactly 16 KiB
      [] tok = "K20" -> 20000  \* above 16 KiB, below 32 KiB
      [] tok = "K32" -> 32768  \* exactly 32 KiB
      [] tok = "K30" -> 30000  \* below 32 KiB
      [] tok = "K40" -> 40000  \* above 32 KiB

RECURSIVE ByteLength(_)
ByteLength(toks) ==
    IF toks = <<>> THEN 0 ELSE TokBytes(Head(toks)) + ByteLength(Tail(toks))

-----------------------------------------------------------------------------
(* The filesystem (node fs / path) *)

WORKSPACE == <<"workspace">>

DirNode == [dir |-> TRUE, content |-> <<>>]
FileNode(toks) == [dir |-> FALSE, content |-> toks]

existsSync(f, p) == p \in DOMAIN f
IsDir(f, p) == p \in DOMAIN f /\ f[p].dir
IsFile(f, p) == p \in DOMAIN f /\ ~f[p].dir

dirname(p) == IF p = <<>> THEN <<>> ELSE SubSeq(p, 1, Len(p) - 1)

Prefixes(p) == {SubSeq(p, 1, i) : i \in 0..Len(p)}

\* path.resolve(base, segs): "." is dropped, ".." pops (the root stays)
RECURSIVE resolve(_, _)
resolve(base, segs) ==
    IF segs = <<>> THEN base
    ELSE LET s == Head(segs)
             b == CASE s = "." -> base
                    [] s = ".." -> dirname(base)
                    [] OTHER -> Append(base, s)
         IN  resolve(b, Tail(segs))

\* path.relative(WORKSPACE, p) for p inside the workspace
relative(p) == SubSeq(p, Len(WORKSPACE) + 1, Len(p))

FsOk(f) == [ok |-> TRUE, err |-> "", fs |-> f]
FsErr(f, e) == [ok |-> FALSE, err |-> e, fs |-> f]

\* the segment "LONG" stands for a name of more than 255 bytes, which the
\* filesystem refuses with ENAMETOOLONG
NameTooLong(p) == \E i \in 1..Len(p) : p[i] = "LONG"

\* fs.mkdirSync(p, {recursive: true}): the missing ancestors are made from
\* the top down, so those above a refused name stay made
mkdirSync(f, p) ==
    IF \E q \in Prefixes(p) : IsFile(f, q)
    THEN FsErr(f, IF IsFile(f, p) THEN "EEXIST" ELSE "ENOTDIR")
    ELSE IF NameTooLong(p)
    THEN FsErr([q \in DOMAIN f \cup {r \in Prefixes(p) : ~NameTooLong(r)} |->
                   IF q \in DOMAIN f THEN f[q] ELSE DirNode], "ENAMETOOLONG")
    ELSE FsOk([q \in DOMAIN f \cup Prefixes(p) |->
                  IF q \in DOMAIN f THEN f[q] ELSE DirNode])

\* a writeFileSync that opens the file with the append flag
writeFileSyncAppending(f, p, toks) ==
    CASE NameTooLong(p) -> FsErr(f, "ENAMETOOLONG")
      [] IsDir(f, p) -> FsErr(f, "EISDIR")
      [] ~IsDir(f, dirname(p)) ->
            FsErr(f, IF existsSync(f, dirname(p)) THEN "ENOTDIR" ELSE "ENOENT")
      [] OTHER -> FsOk([q \in DOMAIN f \cup {p} |->
                           IF q = p
                           THEN FileNode((IF IsFile(f, p) THEN f[p].content
                                          ELSE <<>>) \o toks)
                           ELSE f[q]])

\* fs.writeFileSync(p, toks, 'utf8')
writeFileSync(f, p, toks) ==
    CASE NameTooLong(p) -> FsErr(f, "ENAMETOOLONG")
      [] IsDir(f, p) -> FsErr(f, "EISDIR")
      [] ~IsDir(f, dirname(p)) ->
            FsErr(f, IF existsSync(f, dirname(p)) THEN "ENOTDIR" ELSE "ENOENT")
      [] OTHER -> FsOk([q \in DOMAIN f \cup {p} |->
                           IF q = p THEN FileNode(toks) ELSE f[q]])

\* an appendFileSync that opens the file with the truncating flag
appendFileSyncTruncating(f, p, toks) ==
    CASE NameTooLong(p) -> FsErr(f, "ENAMETOOLONG")
      [] IsDir(f, p) -> FsErr(f, "EISDIR")
      [] ~IsDir(f, dirname(p)) ->
            FsErr(f, IF existsSync(f, dirname(p)) THEN "ENOTDIR" ELSE "ENOENT")
      [] OTHER -> FsOk([q \in DOMAIN f \cup {p} |->
                           IF q = p THEN FileNode(toks) ELSE f[q]])

\* fs.appendFileSync(p, toks, 'utf8')
appendFileSync(f, p, toks) ==
    CASE NameTooLong(p) -> FsErr(f, "ENAMETOOLONG")
      [] IsDir(f, p) -> FsErr(f, "EISDIR")
      [] ~IsDir(f, dirname(p)) ->
            FsErr(f, IF existsSync(f, dirname(p)) THEN "ENOTDIR" ELSE "ENOENT")
      [] OTHER -> FsOk([q \in DOMAIN f \cup {p} |->
                           IF q = p
                           THEN FileNode((IF IsFile(f, p) THEN f[p].content
                                          ELSE <<>>) \o toks)
                           ELSE f[q]])

\* fs.readdirSync(p, {withFileTypes: true}): the entries of directory p
readdirSync(f, p) ==
    {[name |-> q[Len(q)], type |-> IF f[q].dir THEN "directory" ELSE "file"] :
        q \in {r \in DOMAIN f : r # <<>> /\ dirname(r) = p}}

-----------------------------------------------------------------------------
(* validatePath, src/generator.js 336-354 *)

\* the segment's text ends with ".."
EndsWithDotDot(seg) == seg \in {"..", "a.."}

\* the segment's text contains "..\"
HasDotDotBackslash(seg) == seg \in {"..\\x"}

\* cleanPath.includes('../') || cleanPath.includes('..\\')
includesTraversal(segs) ==
    \/ \E i \in 1..(Len(segs) - 1) : EndsWithDotDot(segs[i])
    \/ \E i \in 1..Len(segs) : HasDotDotBackslash(segs[i])

\* absolutePath.startsWith(WORKSPACE): a prefix test on the text "/workspace..."
startsWithWorkspace(abs) ==
    abs # <<>> /\ abs[1] \in {"workspace", "workspace2"}

\* a validatePath without the check of the resolved path
validatePathUnchecked(inputPath) ==
    CASE inputPath.t # "string" ->
            [ok |-> FALSE, err |-> "TypeError", abs |-> <<>>]
      [] includesTraversal(inputPath.segs) ->
            [ok |-> FALSE, err |-> "Path traversal not allowed", abs |-> <<>>]
      [] OTHER ->
            [ok |-> TRUE, err |-> "", abs |-> resolve(WORKSPACE, inputPath.segs)]

validatePath(inputPath) ==
    CASE inputPath.t # "string" ->
            [ok |-> FALSE, err |-> "TypeError", abs |-> <<>>]
      [] includesTraversal(inputPath.segs) ->
            [ok |-> FALSE, err |-> "Path traversal not allowed", abs |-> <<>>]
      [] ~startsWithWorkspace(resolve(WORKSPACE, inputPath.segs)) ->
            [ok |-> FALSE, err |-> "Path outside workspace", abs |-> <<>>]
      [] OTHER ->
            [ok |-> TRUE, err |-> "", abs |-> resolve(WORKSPACE, inputPath.segs)]

-----------------------------------------------------------------------------
(* The tool handlers and the dispatcher, src/generator.js 359-572 *)

Failure(f, code, e) ==
    [success |-> FALSE, error_code |-> code, error |-> e, fs |-> f,
     path |-> <<>>, bytes |-> 0, content |-> <<>>, items |-> {}]

Success(f, p, n, c, it) ==
    [success |-> TRUE, error_code |-> "", error |-> "", fs |-> f,
     path |-> p, bytes |-> n, content |-> c, items |-> it]

handleWriteFile(f, args) ==
    IF args.t # "object" THEN Failure(f, "", "TypeError")
    ELSE IF args.content.t = "undefined"
    THEN Failure(f, "INVALID_WRITE_CONTENT", "Content is missing or undefined")
    ELSE IF args.content.t # "string"
    THEN Failure(f, "INVALID_WRITE_CONTENT", "Content must be a string")
    ELSE LET v == validatePath(args.path) IN
    IF ~v.ok THEN Failure(f, "", v.err)
    ELSE LET m == mkdirSync(f, dirname(v.abs)) IN
    IF ~m.ok THEN Failure(m.fs, "", m.err)
    ELSE LET w == writeFileSync(m.fs, v.abs, args.content.toks) IN
    IF ~w.ok THEN Failure(m.fs, "", w.err)
    ELSE Success(w.fs, relative(v.abs), ByteLength(args.content.toks), <<>>, {})

handleAppendFile(f, args) ==
    IF args.t # "object" THEN Failure(f, "", "TypeError")
    ELSE IF args.content.t = "undefined"
    THEN Failure(f, "INVALID_WRITE_CONTENT", "Content is missing or undefined")
    ELSE IF args.content.t # "string"
    THEN Failure(f, "INVALID_WRITE_CONTENT", "Content must be a string")
    ELSE LET v == validatePath(args.path) IN
    IF ~v.ok THEN Failure(f, "", v.err)
    ELSE LET m == mkdirSync(f, dirname(v.abs)) IN
    IF ~m.ok THEN Failure(m.fs, "", m.err)
    ELSE LET w == appendFileSync(m.fs, v.abs, args.content.toks) IN
    IF ~w.ok THEN Failure(m.fs, "", w.err)
    ELSE Success(w.fs, relative(v.abs), ByteLength(args.content.toks), <<>>, {})

handleReadFile(f, args) ==
    IF args.t # "object" THEN Failure(f, "", "TypeError")
    ELSE LET v == validatePath(args.path) IN
    IF ~v.ok THEN Failure(f, "", v.err)
    ELSE IF ~existsSync(f, v.abs) THEN Failure(f, "", "File not found")
    ELSE IF IsDir(f, v.abs) THEN Failure(f, "", "EISDIR")
    ELSE Success(f, relative(v.abs), 0, f[v.abs].content, {})

handleListDirectory(f, args) ==
    IF args.t # "object" THEN Failure(f, "", "TypeError")
    ELSE LET v == validatePath(args.path) IN
    IF ~v.ok THEN Failure(f, "", v.err)
    ELSE IF ~existsSync(f, v.abs) THEN Failure(f, "", "Directory not found")
    ELSE IF ~IsDir(f, v.abs) THEN Failure(f, "", "ENOTDIR")
    ELSE Success(f, relative(v.abs), 0, <<>>, readdirSync(f, v.abs))

handleCreateDirectory(f, args) ==
    IF args.t # "object" THEN Failure(f, "", "TypeError")
    ELSE LET v == validatePath(args.path) IN
    IF ~v.ok THEN Failure(f, "", v.err)
    ELSE LET m == mkdirSync(f, v.abs) IN
    IF ~m.ok THEN Failure(m.fs, "", m.err)
    ELSE Success(m.fs, relative(v.abs), 0, <<>>, {})

executeTool(f, toolName, args) ==
    CASE toolName = "write_file" -> handleWriteFile(f, args)
      [] toolName = "append_file" -> handleAppendFile(f, args)
      [] toolName = "read_file" -> handleReadFile(f, args)
      [] toolName = "list_directory" -> handleListDirectory(f, args)
      [] toolName = "create_directory" -> handleCreateDirectory(f, args)
      [] OTHER -> Failure(f, "", "Unknown tool")

-----------------------------------------------------------------------------
(* validateWorkspace, src/generator.js 145-230 *)

\* REQUIRED_FILES: each entry is the set of paths one of which must exist
REQUIRED_FILES(type) ==
    CASE type = "static" -> {{<<"index.html">>}}
      [] type = "node" -> {{<<"package.json">>}, {<<"server.js">>, <<"index.js">>}}
      [] type = "nextjs" ->
            {{<<"package.json">>}, {<<"next.config.js">>}, {<<"tsconfig.json">>},
             {<<"app", "layout.tsx">>}, {<<"app", "page.tsx">>},
             {<<"app", "globals.css">>}}
      [] type = "vite" ->
            {{<<"package.json">>}, {<<"vite.config.ts">>}, {<<"index.html">>},
             {<<"src", "main.tsx">>}, {<<"src", "App.tsx">>}}

\* a contract without forbidden files
FORBIDDEN_FILES_None(type) == {}

FORBIDDEN_FILES(type) ==
    IF type = "static" THEN {<<"package.json">>} ELSE {}

\* projectType?.toLowerCase() || 'static', then the normalisation of 151-155
normalizedType(type) ==
    CASE type \in {"nextjs", "next"} -> "nextjs"
      [] type \in {"node", "api"} -> "node"
      [] type \in {"vite", "react-spa", "react"} -> "vite"
      [] OTHER -> "static"

\* the text matches one of the two /health patterns of line 214
hasHealthRoute(toks) == \E i \in 1..Len(toks) : toks[i] = "h"

HARD_CAP == 32768
WARN_SIZE == 16384

\* a checkSizes that does not descend into directories
WorkspaceFilesTopLevel(f) ==
    {q \in DOMAIN f : /\ ~f[q].dir
                      /\ Len(q) = Len(WORKSPACE) + 1
                      /\ SubSeq(q, 1, Len(WORKSPACE)) = WORKSPACE}

\* checkSizes: every file below the workspace root, at any depth
WorkspaceFiles(f) ==
    {q \in DOMAIN f : /\ ~f[q].dir
                      /\ Len(q) > Len(WORKSPACE)
                      /\ SubSeq(q, 1, Len(WORKSPACE)) = WORKSPACE}

serverFiles == <<<<"server.js">>, <<"index.js">>, <<"src", "server.js">>,
                 <<"src", "index.js">>>>

\* the loop of 210-219: the files read before a health route is found
RECURSIVE healthScan(_, _)
healthScan(f, i) ==
    IF i > Len(serverFiles) THEN [hasHealth |-> FALSE, threw |-> FALSE]
    ELSE LET fp == WORKSPACE \o serverFiles[i] IN
         IF ~existsSync(f, fp) THEN healthScan(f, i + 1)
         ELSE IF IsDir(f, fp) THEN [hasHealth |-> FALSE, threw |-> TRUE]
         ELSE IF hasHealthRoute(f[fp].content)
              THEN [hasHealth |-> TRUE, threw |-> FALSE]
              ELSE healthScan(f, i + 1)

\* a requirement that asks for every path of an alternative set
satisfiedByAll(f, req) == \A p \in req : existsSync(f, WORKSPACE \o p)

\* lines 160-170: req.some(...) for an either/or entry, existsSync for a path
satisfied(f, req) == \E p \in req : existsSync(f, WORKSPACE \o p)

validateWorkspace(f, type) ==
    LET nt == normalizedType(type)
        missing == {[kind |-> "missing", what |-> req] :
                      req \in {r \in REQUIRED_FILES(nt) : ~satisfied(f, r)}}
        forbidden == {[kind |-> "forbidden", what |-> {p}] :
                        p \in {q \in FORBIDDEN_FILES(nt) :
                                 existsSync(f, WORKSPACE \o q)}}
        tooLarge == {[kind |-> "too_large", what |-> {relative(q)}] :
                       q \in {r \in WorkspaceFiles(f) :
                                ByteLength(f[r].content) > HARD_CAP}}
        large == {[kind |-> "large", what |-> {relative(q)}] :
                    q \in {r \in WorkspaceFiles(f) :
                             /\ ByteLength(f[r].content) <= HARD_CAP
                             /\ ByteLength(f[r].content) > WARN_SIZE}}
        scan == IF nt = "node" THEN healthScan(f, 1)
                ELSE [hasHealth |-> TRUE, threw |-> FALSE]
        health == IF scan.hasHealth THEN {}
                  ELSE {[kind |-> "no_health", what |-> {}]}
        errors == missing \cup forbidden \cup tooLarge \cup health
    IN  [ok |-> errors = {}, errors |-> errors, warnings |-> large,
         threw |-> scan.threw]

-----------------------------------------------------------------------------
(* Gateway runs: sequences of tool calls applied to the workspace *)

EmptyTracker == [k \in {} |-> 0]

FsInit == (<<>> :> DirNode) @@ (WORKSPACE :> DirNode)

pIndex == PathString(0, <<"index.html">>)
pAbsolute == PathString(1, <<"index.html">>)
pNested == PathString(0, <<"sub", "x.js">>)
pSub == PathString(0, <<"sub">>)
pDot == PathString(0, <<".">>)
pParentFirst == PathString(0, <<"..", "etc">>)
pParentOnly == PathString(0, <<"..">>)
pParentLast == PathString(0, <<"sub", "..">>)
pParentDeep == PathString(0, <<"sub", "d", "..">>)
pLongName == PathString(0, <<"newdir", "LONG">>)

\* paths of the path runs
GwPaths == {pIndex, pAbsolute, pNested, pSub, pDot, pParentFirst, pParentOnly,
            pParentLast, pParentDeep, pLongName, JsUndefined, JsNumber}

\* contents of the size runs
GwContents == {ContentString(<<t>>) : t \in {"a", "b", "K8", "K9", "K30", "K40"}}
                 \cup {JsUndefined, JsNumber}

ToolNames == {"write_file", "append_file", "read_file", "list_directory",
              "create_directory"}

NoCall == [name |-> "", args |-> JsUndefined, success |-> FALSE,
           error_code |-> "", error |-> "", before |-> <<>>, changed |-> FALSE]

\* the bytes of the file a call names, before the call (none: <<>>)
ContentBefore(f, args) ==
    IF args.t = "object" /\ validatePath(args.path).ok
       /\ IsFile(f, validatePath(args.path).abs)
    THEN f[validatePath(args.path).abs].content
    ELSE <<>>

\* one call of executeTool on the workspace; last keeps the call, its outcome,
\* the bytes its target file had before and whether the filesystem changed
GwCall(toolName, args) ==
    /\ pc = "gateway"
    /\ opCount < MaxOps
    /\ LET r == executeTool(fs, toolName, args) IN
       /\ fs' = r.fs
       /\ last' = [name |-> toolName, args |-> args, success |-> r.success,
                   error_code |-> r.error_code, error |-> r.error,
                   before |-> ContentBefore(fs, args), changed |-> r.fs # fs]
    /\ opCount' = opCount + 1
    /\ UNCHANGED driverVars

PathWriteFile ==
    \E p \in GwPaths : GwCall("write_file", Args(p, ContentString(<<"a">>)))
PathAppendFile ==
    \E p \in GwPaths : GwCall("append_file", Args(p, ContentString(<<"b">>)))
PathReadFile == \E p \in GwPaths : GwCall("read_file", Args(p, JsUndefined))
PathListDirectory ==
    \E p \in GwPaths : GwCall("list_directory", Args(p, JsUndefined))
PathCreateDirectory ==
    \E p \in GwPaths : GwCall("create_directory", Args(p, JsUndefined))
PathUnknownTool == GwCall("delete_file", Args(pIndex, JsUndefined))
PathNoArguments == \E n \in ToolNames : GwCall(n, JsUndefined)

SizeWriteFile == \E c \in GwContents : GwCall("write_file", Args(pIndex, c))
SizeAppendFile == \E c \in GwContents : GwCall("append_file", Args(pIndex, c))
SizeReadFile == GwCall("read_file", Args(pIndex, JsUndefined))

InitGw ==
    /\ fs = FsInit
    /\ pc = "gateway"
    /\ turnCount = 0
    /\ messages = <<>>
    /\ toolUses = <<>>
    /\ idx = 0
    /\ toolResults = <<>>
    /\ failureTracker = EmptyTracker
    /\ circuitBreakerResult = JsUndefined
    /\ returned = JsUndefined
    /\ projectType = "static"
    /\ last = NoCall
    /\ opCount = 0
    /\ validation = JsUndefined
    /\ listing = JsUndefined
    /\ streak = EmptyTracker

NextGw ==
    \/ PathWriteFile
    \/ PathAppendFile
    \/ PathReadFile
    \/ PathListDirectory
    \/ PathCreateDirectory
    \/ PathUnknownTool
    \/ PathNoArguments

NextGwSize ==
    \/ SizeWriteFile
    \/ SizeAppendFile
    \/ SizeReadFile

\* the keys of CONTRACT_MAP, lines 11-21
CONTRACT_MAP ==
    {"nextjs", "next", "node", "api", "static", "html", "vite", "react-spa", "react"}

\* the project types of the validated workspaces: PROJECT_TYPE, line 113
ProjectTypes == {"static", "node", "api", "vite", "nextjs", "custom"}

pServer == PathString(0, <<"server.js">>)
pIndexJs == PathString(0, <<"index.js">>)
pSrcServer == PathString(0, <<"src", "server.js">>)
pSrcIndex == PathString(0, <<"src", "index.js">>)
pPackageJson == PathString(0, <<"package.json">>)

ValidatorPaths == {pIndex, pPackageJson, pServer, pIndexJs, pSrcServer, pSrcIndex}
ValidatorContents ==
    {ContentString(<<t>>) : t \in {"a", "h", "K16", "K32", "K40"}}

\* the workspace is built by tool calls
BuildCall(toolName, args) ==
    /\ pc = "gateway"
    /\ opCount < MaxOps
    /\ fs' = executeTool(fs, toolName, args).fs
    /\ opCount' = opCount + 1
    /\ UNCHANGED <<driverVars, last>>

BuildWriteFile ==
    \E p \in ValidatorPaths, c \in ValidatorContents :
        BuildCall("write_file", Args(p, c))
BuildCreateDirectory ==
    \E p \in {pServer, pSrcIndex, pIndex} :
        BuildCall("create_directory", Args(p, JsUndefined))

\* validateWorkspace(projectType) is called on the workspace: line 764
Validate ==
    /\ pc = "gateway"
    /\ LET v == validateWorkspace(fs, projectType) IN
       IF v.threw
       THEN /\ pc' = "threw"
            /\ UNCHANGED validation
       ELSE /\ pc' = "validated"
            /\ validation' = [t |-> "object", ok |-> v.ok, errors |-> v.errors,
                              warnings |-> v.warnings]
    /\ UNCHANGED <<fs, turnCount, messages, toolUses, idx, toolResults,
                   failureTracker, circuitBreakerResult, returned, projectType,
                   last, opCount, listing, streak>>

InitValidate ==
    /\ fs = FsInit
    /\ pc = "gateway"
    /\ turnCount = 0
    /\ messages = <<>>
    /\ toolUses = <<>>
    /\ idx = 0
    /\ toolResults = <<>>
    /\ failureTracker = EmptyTracker
    /\ circuitBreakerResult = JsUndefined
    /\ returned = JsUndefined
    /\ projectType \in ProjectTypes
    /\ last = NoCall
    /\ opCount = 0
    /\ validation = JsUndefined
    /\ listing = JsUndefined
    /\ streak = EmptyTracker

NextValidate ==
    \/ BuildWriteFile
    \/ BuildCreateDirectory
    \/ Validate

\* the validator applied to workspaces built by tool calls
SpecValidate == InitValidate /\ [][NextValidate]_vars

\* tool calls with varied paths
SpecGw == InitGw /\ [][NextGw]_vars

\* tool calls with varied contents on one file
SpecGwSize == InitGw /\ [][NextGwSize]_vars

-----------------------------------------------------------------------------
(* The oracle's replies *)

\* the text of a reply: whether it holds a ```json fence, whether the fenced
\* text mentioning "files" parses as JSON, and the value of its files key
Text(fence, parses, files) == [fence |-> fence, parses |-> parses, files |-> files]
FileList(entries) == [t |-> "array", entries |-> entries]
Entry(p, n) == [path |-> p, estimated_bytes |-> n]

pPackage == PathString(0, <<"package.json">>)

mOk == FileList(<<Entry(pIndex, 500)>>)
mEmpty == FileList(<<>>)
mOverBudget == FileList(<<Entry(pIndex, 30000), Entry(pNested, 900000)>>)
mBadPaths == FileList(<<Entry(pIndex, 500), Entry(pParentFirst, 500),
                        Entry(pPackage, 500)>>)

tProse == Text(FALSE, FALSE, JsUndefined)
tUnfenced == Text(FALSE, TRUE, mOk)
tBadJson == Text(TRUE, FALSE, JsUndefined)
tNotArray == Text(TRUE, TRUE, JsNumber)

ManifestTexts == {Text(TRUE, TRUE, m) : m \in {mOk, mEmpty, mOverBudget, mBadPaths}}

\* an extractManifest that finds no manifest
extractManifestNever(text) == JsUndefined

\* extractManifest, src/generator.js 125-140: the manifest or JsUndefined (null)
extractManifest(text) ==
    IF text.fence /\ text.parses /\ text.files.t = "array"
    THEN text.files
    ELSE JsUndefined

\* a tool_use block before the oracle's id is attached
Use(name, input) == [name |-> name, input |-> input]

uWriteIndex == Use("write_file", Args(pIndex, ContentString(<<"a">>)))
uAppendIndex == Use("append_file", Args(pIndex, ContentString(<<"b">>)))
uWritePackage == Use("write_file", Args(pPackage, ContentString(<<"a">>)))
uWriteEscape == Use("write_file", Args(pParentFirst, ContentString(<<"a">>)))
uReadEscape == Use("read_file", Args(pParentFirst, JsUndefined))
uReadIndex == Use("read_file", Args(pIndex, JsUndefined))
uWriteNoPath == Use("write_file", Args(JsUndefined, JsUndefined))
uUnknown == Use("delete_file", Args(pIndex, JsUndefined))
uMkdir == Use("create_directory", Args(pSub, JsUndefined))

\* calls whose arguments depart from the input schemas of lines 252-330
pFive == PathString(0, <<"5">>)
uReadNumber == Use("read_file", Args(JsNumber, JsUndefined))
uReadFive == Use("read_file", Args(pFive, JsUndefined))
uWriteFive == Use("write_file", Args(pFive, ContentString(<<"a">>)))
uWriteNumberContent == Use("write_file", Args(pIndex, JsNumber))
uNoInput == Use("write_file", JsUndefined)

\* the tool_use lists of the replies of a run with such calls
ReplyArgsUses ==
    {<<>>,
     <<uWriteIndex>>,
     <<uReadNumber>>,
     <<uReadFive>>,
     <<uWriteFive>>,
     <<uWriteNoPath, uUnknown>>,
     <<uWriteNumberContent>>,
     <<uNoInput>>,
     <<uWriteIndex, uNoInput>>,
     <<uWriteNoPath, uWriteNoPath, uWriteNoPath>>}

\* the tool_use lists of the replies of a run
ReplyUses ==
    {<<>>,
     <<uWriteIndex>>,
     <<uAppendIndex>>,
     <<uWritePackage, uMkdir>>,
     <<uReadIndex>>,
     <<uWriteEscape>>,
     <<uWriteEscape, uReadEscape, uWriteEscape>>,
     <<uWriteEscape, uWriteEscape, uWriteEscape, uWriteIndex>>,
     <<uWriteNoPath, uUnknown>>}

StopReasons == {"end_turn", "tool_use", "max_tokens"}

-----------------------------------------------------------------------------
(* generate(), src/generator.js 577-809 *)

\* turns of the loop (MAX_TURNS of generator.js:6 is 50)
MAX_TURNS == 3

MAX_REPEATED_FAILURES == 3

Message(role, kind, text, ids) ==
    [role |-> role, kind |-> kind, text |-> text, ids |-> ids]

PromptMessage == Message("user", "prompt", tProse, <<>>)
AckMessage == Message("user", "ack", tProse, <<>>)
NudgeMessage == Message("user", "nudge", tProse, <<>>)

\* the id the oracle gives the i-th tool_use block of the reply of a turn
ToolUseId(turn, i) == "toolu_" \o ToString(turn) \o "_" \o ToString(i)

WithIds(uses, turn) ==
    [i \in 1..Len(uses) |->
        [name |-> uses[i].name, input |-> uses[i].input, id |-> ToolUseId(turn, i)]]

Ids(uses) == [i \in 1..Len(uses) |-> uses[i].id]

RECURSIVE JoinSegs(_)
JoinSegs(segs) ==
    IF segs = <<>> THEN ""
    ELSE IF Len(segs) = 1 THEN segs[1]
    ELSE segs[1] \o "/" \o JoinSegs(Tail(segs))

\* the text of a path value inside a template string
PathText(p) ==
    CASE p.t = "string" -> (IF p.lead > 0 THEN "/" ELSE "") \o JoinSegs(p.segs)
      [] p.t = "number" -> "5"
      [] OTHER -> "undefined"

\* toolUse.input?.path is truthy
HasPath(toolUse) ==
    /\ toolUse.input.t = "object"
    /\ toolUse.input.path.t # "undefined"
    /\ toolUse.input.path.t = "string" => PathText(toolUse.input.path) # ""

\* a key that leaves the call id out
trackingKeyWithoutId(toolUse) ==
    toolUse.name \o ":" \o
        (IF HasPath(toolUse) THEN PathText(toolUse.input.path) ELSE "")

\* `${toolUse.name}:${toolUse.input?.path || toolUse.id}`, line 699
trackingKey(toolUse) ==
    toolUse.name \o ":" \o
        (IF HasPath(toolUse) THEN PathText(toolUse.input.path) ELSE toolUse.id)

trackerGet(tracker, key) == IF key \in DOMAIN tracker THEN tracker[key] ELSE 0
\* a failureTracker.set that stores nothing
trackerSetForgetting(tracker, key, n) == tracker

\* a failureTracker.set that stores one more than it is given
trackerSetOneMore(tracker, key, n) ==
    [k \in DOMAIN tracker \cup {key} |-> IF k = key THEN n + 1 ELSE tracker[k]]

trackerSet(tracker, key, n) ==
    [k \in DOMAIN tracker \cup {key} |-> IF k = key THEN n ELSE tracker[k]]
trackerDelete(tracker, key) == [k \in DOMAIN tracker \ {key} |-> tracker[k]]

\* a request that does not count its turn
RequestUncounted ==
    /\ pc = "loop"
    /\ turnCount < MAX_TURNS
    /\ pc' = "await"
    /\ UNCHANGED <<fs, turnCount, messages, toolUses, idx, toolResults,
                   failureTracker, circuitBreakerResult, returned, projectType,
                   last, opCount, validation, listing, streak>>

\* a request sent without waiting for the calls of the reply
RequestWhileExecuting ==
    /\ pc \in {"loop", "tools"}
    /\ turnCount < MAX_TURNS
    /\ turnCount' = turnCount + 1
    /\ pc' = "await"
    /\ UNCHANGED <<fs, messages, toolUses, idx, toolResults,
                   failureTracker, circuitBreakerResult, returned, projectType,
                   last, opCount, validation, listing, streak>>

\* the request of a turn is sent: lines 623-635
Request ==
    /\ pc = "loop"
    /\ turnCount < MAX_TURNS
    /\ turnCount' = turnCount + 1
    /\ pc' = "await"
    /\ UNCHANGED <<fs, messages, toolUses, idx, toolResults, failureTracker,
                   circuitBreakerResult, returned, projectType, last, opCount,
                   validation, listing, streak>>

\* the while condition fails: lines 623, 759-761
LoopExit ==
    /\ pc = "loop"
    /\ turnCount >= MAX_TURNS
    /\ pc' = "validate"
    /\ UNCHANGED <<fs, turnCount, messages, toolUses, idx, toolResults,
                   failureTracker, circuitBreakerResult, returned, projectType,
                   last, opCount,
                   validation, listing, streak>>

\* a reply arrives and is processed up to the for loop: lines 637-691
ProcessReply(text, stop, uses) ==
    LET tu == WithIds(uses, turnCount)
        manifest == extractManifest(text)
        reply == Message("assistant", "reply", text, Ids(tu))
        pushed == Append(messages, reply)
        nudged == IF stop = "max_tokens" THEN Append(pushed, NudgeMessage)
                  ELSE pushed
    IN  /\ pc = "await"
        /\ IF manifest # JsUndefined /\ tu = <<>>
           THEN /\ messages' = Append(pushed, AckMessage)
                /\ pc' = "loop"
                /\ UNCHANGED <<toolUses, idx>>
           ELSE IF stop = "end_turn"
           THEN /\ messages' = pushed
                /\ pc' = "validate"
                /\ UNCHANGED <<toolUses, idx>>
           ELSE IF tu = <<>>
           THEN /\ messages' = nudged
                /\ pc' = "validate"
                /\ UNCHANGED <<toolUses, idx>>
           ELSE /\ messages' = nudged
                /\ pc' = "tools"
                /\ toolUses' = tu
                /\ idx' = 1
        /\ UNCHANGED <<fs, turnCount, toolResults, failureTracker,
                       circuitBreakerResult, returned, projectType, last, opCount,
                       validation, listing, streak>>

Reply ==
    \E text \in {tProse, Text(TRUE, TRUE, mOk)}, stop \in StopReasons,
       uses \in ReplyUses :
        ProcessReply(text, stop, uses)

\* the (tool, path) pair of a call; a call without a path stands alone
Pair(toolUse) ==
    <<toolUse.name,
      IF HasPath(toolUse) THEN toolUse.input.path
      ELSE [t |-> "id", id |-> toolUse.id]>>

\* the history of results: failures in a row of the calls on a pair
failuresInARow(h, pair) == IF pair \in DOMAIN h THEN h[pair] ELSE 0
historyCount(h, pair) ==
    [q \in DOMAIN h \cup {pair} |->
        IF q = pair THEN failuresInARow(h, pair) + 1 ELSE h[q]]
historyReset(h, pair) == [q \in DOMAIN h \ {pair} |-> h[q]]

\* generate() rejected: an error left the loop's catch, or the validator threw
Threw == [t |-> "threw"]

\* JSON.stringify(toolUse.input).substring(0, 60), line 694: JSON.stringify
\* of undefined is undefined, and reading its substring throws a TypeError
logLineThrows(toolUse) == toolUse.input.t = "undefined"

\* one iteration of the for loop over toolUses, and what follows the loop
\* when it was the last: lines 693-744; an error thrown inside the loop is
\* caught at 746 and thrown again at 755
ExecTool ==
    /\ pc = "tools"
    /\ LET toolUse == toolUses[idx]
           result == executeTool(fs, toolUse.name, toolUse.input)
           key == trackingKey(toolUse)
           failures == trackerGet(failureTracker, key) + 1
           tripped == ~result.success /\ failures >= MAX_REPEATED_FAILURES
           results == Append(toolResults,
                             [tool_use_id |-> toolUse.id,
                              success |-> result.success,
                              error |-> result.error])
       IN  IF logLineThrows(toolUse)
           THEN /\ pc' = "threw"
                /\ returned' = Threw
                /\ UNCHANGED <<fs, failureTracker, circuitBreakerResult,
                               messages, toolResults, toolUses, idx, streak>>
           ELSE
           /\ fs' = result.fs
           /\ streak' = IF result.success THEN historyReset(streak, Pair(toolUse))
                         ELSE historyCount(streak, Pair(toolUse))
           /\ failureTracker' =
                 IF ~result.success THEN trackerSet(failureTracker, key, failures)
                 ELSE IF HasPath(toolUse) THEN trackerDelete(failureTracker, key)
                 ELSE failureTracker
           /\ IF tripped
              THEN /\ circuitBreakerResult' =
                        [t |-> "object", success |-> FALSE,
                         error_code |-> "CIRCUIT_BREAKER",
                         tool |-> toolUse.name,
                         path |-> IF HasPath(toolUse) THEN toolUse.input.path
                                  ELSE JsUndefined,
                         tool_use_id |-> toolUse.id,
                         last_error |-> result.error,
                         failures |-> failures]
                   /\ pc' = "validate"
                   /\ UNCHANGED <<messages, toolResults, toolUses, idx>>
              ELSE IF idx < Len(toolUses)
              THEN /\ toolResults' = results
                   /\ idx' = idx + 1
                   /\ UNCHANGED <<messages, toolUses, pc, circuitBreakerResult>>
              ELSE /\ messages' = Append(messages,
                                         Message("user", "results", tProse,
                                                 [i \in 1..Len(results) |->
                                                     results[i].tool_use_id]))
                   /\ toolResults' = <<>>
                   /\ toolUses' = <<>>
                   /\ idx' = 0
                   /\ pc' = "loop"
                   /\ UNCHANGED circuitBreakerResult
           /\ UNCHANGED returned
    /\ UNCHANGED <<turnCount, projectType, last, opCount, validation, listing>>

\* a retry that gives the turn back
RateLimitedRollingBack ==
    /\ pc = "await"
    /\ pc' = "loop"
    /\ turnCount' = turnCount - 1
    /\ UNCHANGED <<fs, messages, toolUses, idx, toolResults,
                   failureTracker, circuitBreakerResult, returned, projectType,
                   last, opCount, validation, listing, streak>>

\* a retry that starts the conversation again
RateLimitedRestarting ==
    /\ pc = "await"
    /\ pc' = "loop"
    /\ messages' = <<PromptMessage>>
    /\ UNCHANGED <<fs, turnCount, toolUses, idx, toolResults,
                   failureTracker, circuitBreakerResult, returned, projectType,
                   last, opCount, validation, listing, streak>>

\* the request fails with status 429: lines 749-753
RateLimited ==
    /\ pc = "await"
    /\ pc' = "loop"
    /\ UNCHANGED <<fs, turnCount, messages, toolUses, idx, toolResults,
                   failureTracker, circuitBreakerResult, returned, projectType,
                   last, opCount,
                   validation, listing, streak>>

\* the request fails otherwise and the error is thrown again: line 755
OracleError ==
    /\ pc = "await"
    /\ pc' = "threw"
    /\ returned' = Threw
    /\ UNCHANGED <<fs, turnCount, messages, toolUses, idx, toolResults,
                   failureTracker, circuitBreakerResult, projectType, last, opCount,
                   validation, listing, streak>>

\* printWorkspaceContents, lines 235-249: the items of list_directory('.')
printWorkspaceContents(f) ==
    LET result == executeTool(f, "list_directory", Args(pDot, JsUndefined)) IN
    [t |-> "object", listed |-> result.success, items |-> result.items]

\* a report that does not look at the validator's result
finalResultUnvalidated(v, breaker, turns) ==
    IF breaker # JsUndefined THEN breaker
    ELSE [t |-> "object", success |-> TRUE, error_code |-> "", turns |-> turns]

\* a report that looks at the validator's result before the breaker's record
finalResultValidationFirst(v, breaker, turns) ==
    IF ~v.ok
    THEN [t |-> "object", success |-> FALSE, error_code |-> "VALIDATION_FAILED",
          errors |-> v.errors]
    ELSE IF breaker # JsUndefined THEN breaker
    ELSE [t |-> "object", success |-> TRUE, error_code |-> "", turns |-> turns]

\* validation, the listing and the value returned: lines 763-808
finalResult(v, breaker, turns) ==
    IF breaker # JsUndefined THEN breaker
    ELSE IF ~v.ok
    THEN [t |-> "object", success |-> FALSE, error_code |-> "VALIDATION_FAILED",
          errors |-> v.errors]
    ELSE [t |-> "object", success |-> TRUE, error_code |-> "", turns |-> turns]

Finish ==
    /\ pc = "validate"
    /\ LET v == validateWorkspace(fs, projectType) IN
       IF v.threw
       THEN /\ pc' = "threw"
            /\ returned' = Threw
            /\ UNCHANGED <<validation, listing>>
       ELSE /\ pc' = "done"
            /\ validation' = [t |-> "object", ok |-> v.ok, errors |-> v.errors,
                              warnings |-> v.warnings]
            /\ listing' = printWorkspaceContents(fs)
            /\ returned' = finalResult(v, circuitBreakerResult, turnCount)
    /\ UNCHANGED <<fs, turnCount, messages, toolUses, idx, toolResults,
                   failureTracker, circuitBreakerResult, projectType, last, opCount,
                   streak>>

Init ==
    /\ fs = FsInit
    /\ pc = "loop"
    /\ turnCount = 0
    /\ messages = <<PromptMessage>>
    /\ toolUses = <<>>
    /\ idx = 0
    /\ toolResults = <<>>
    /\ failureTracker = EmptyTracker
    /\ circuitBreakerResult = JsUndefined
    /\ returned = JsUndefined
    /\ projectType = "static"
    /\ last = NoCall
    /\ opCount = 0
    /\ validation = JsUndefined
    /\ listing = JsUndefined
    /\ streak = EmptyTracker

Next ==
    \/ Request
    \/ LoopExit
    \/ Reply
    \/ ExecTool
    \/ RateLimited
    \/ OracleError
    \/ Finish

\* a run of generate() for a static project
Spec == Init /\ [][Next]_vars

\* replies whose tool calls have malformed arguments
ReplyArgs ==
    \E stop \in StopReasons, uses \in ReplyArgsUses :
        ProcessReply(tProse, stop, uses)

NextArgs ==
    \/ Request
    \/ LoopExit
    \/ ReplyArgs
    \/ ExecTool
    \/ RateLimited
    \/ OracleError
    \/ Finish

\* a run of generate() whose replies hold malformed tool calls
SpecArgs == Init /\ [][NextArgs]_vars

\* replies with every kind of text, and few tool calls
ReplyManifest ==
    \E text \in {tProse, tUnfenced, tBadJson, tNotArray} \cup ManifestTexts,
       stop \in StopReasons, uses \in {<<>>, <<uWriteIndex>>} :
        ProcessReply(text, stop, uses)

NextManifest ==
    \/ Request
    \/ LoopExit
    \/ ReplyManifest
    \/ ExecTool
    \/ RateLimited
    \/ OracleError
    \/ Finish

\* a run of generate() whose replies vary in their manifest text
SpecManifest == Init /\ [][NextManifest]_vars

-----------------------------------------------------------------------------
(* Claims C1-C5: the manifest gate *)

MutatingTools == {"write_file", "append_file", "create_directory"}

\* the acknowledgment "Manifest accepted. Now write the files." is among msgs
ManifestAccepted(msgs) == \E i \in 1..Len(msgs) : msgs[i].kind = "ack"

IsReply(i) == messages[i].kind = "reply"

\* the reply at position i was answered with the acknowledgment
Acknowledged(i) == i < Len(messages) /\ messages[i + 1].kind = "ack"

\* the results of the tool calls of the reply at position i were collected
Executed(i) ==
    \/ \E j \in (i + 1)..Len(messages) :
          messages[j].kind = "results" /\ messages[j].ids = messages[i].ids
    \/ /\ pc = "tools"
       /\ i = Len(messages) \/ (i = Len(messages) - 1 /\ messages[i + 1].kind = "nudge")

\* C1: no write_file, append_file or create_directory call is executed before
\* a manifest has been accepted in an earlier turn.
C1_NoWriteBeforeManifest ==
    [][(ExecTool /\ toolUses[idx].name \in MutatingTools)
          => ManifestAccepted(messages)]_vars

\* C2: a reply before approval that holds tool calls and no manifest ends the
\* run on that turn as a protocol violation, and none of its calls executes.
C2_ProtocolViolation ==
    \A i \in 1..Len(messages) :
        (/\ IsReply(i)
         /\ messages[i].ids # <<>>
         /\ extractManifest(messages[i].text) = JsUndefined
         /\ ~ManifestAccepted(SubSeq(messages, 1, i)))
        => /\ pc \in {"validate", "done", "threw"}
           /\ pc = "done" => returned.error_code = "PROTOCOL_VIOLATION"
           /\ ~Executed(i)

RECURSIVE EstimatedTotal(_)
EstimatedTotal(entries) ==
    IF entries = <<>> THEN 0
    ELSE Head(entries).estimated_bytes + EstimatedTotal(Tail(entries))

\* the reply at position i holds a manifest and the run was ended for it with
\* nothing written
Rejected(i) ==
    /\ ~Acknowledged(i)
    /\ pc \in {"validate", "done", "threw"}
    /\ pc = "done" => returned.error_code = "MANIFEST_REJECTED"
    /\ WorkspaceFiles(fs) = {}

\* the project budgets some manifest of the runs exceeds
Budgets ==
    {EstimatedTotal(t.files.entries) : t \in ManifestTexts}
        \ {EstimatedTotal(mOverBudget.entries)}

\* C3: a manifest whose estimated bytes sum to more than the project budget
\* ends the run as rejected and no file is written (for some budget that a
\* manifest can exceed: generator.js defines none).
C3_OverBudgetRejected ==
    \E budget \in Budgets :
        \A i \in 1..Len(messages) :
            (/\ IsReply(i)
             /\ extractManifest(messages[i].text) # JsUndefined
             /\ EstimatedTotal(messages[i].text.files.entries) > budget)
            => Rejected(i)

\* the manifest's paths: relative, free of parent segments, holding every
\* required file of the project type and none of its forbidden files
ManifestPaths(m) == {m.entries[k].path : k \in 1..Len(m.entries)}

WellFormedManifest(m, type) ==
    /\ m.entries # <<>>
    /\ \A p \in ManifestPaths(m) :
          /\ p.t = "string"
          /\ p.lead = 0
          /\ \A k \in 1..Len(p.segs) : p.segs[k] # ".."
    /\ \A req \in REQUIRED_FILES(normalizedType(type)) :
          \E q \in req : PathString(0, q) \in ManifestPaths(m)
    /\ \A q \in FORBIDDEN_FILES(normalizedType(type)) :
          PathString(0, q) \notin ManifestPaths(m)

\* C4: every manifest the gate accepts is non-empty, has only relative
\* traversal-free paths and satisfies the contract's required and forbidden
\* rules; any other manifest ends the run as rejected with no tool executed.
C4_AcceptedManifestWellFormed ==
    \A i \in 1..Len(messages) :
        (IsReply(i) /\ extractManifest(messages[i].text) # JsUndefined)
        => IF WellFormedManifest(messages[i].text.files, projectType)
           THEN TRUE
           ELSE Rejected(i) /\ ~Executed(i)

\* C5: the gate fires at most once in a run: no second acknowledgment is
\* appended after a manifest has been accepted.
C5_GateFiresOnce ==
    Cardinality({i \in 1..Len(messages) : messages[i].kind = "ack"}) <= 1

-----------------------------------------------------------------------------
(* Claims C6-C10: the gateway *)

CHUNK_CAP == 8192

\* the path has a segment equal to ".."
HasParentSegment(p) == \E k \in 1..Len(p.segs) : p.segs[k] = ".."

\* the path resolves to a place that is neither the root nor below it
ResolvesOutside(p) ==
    LET abs == resolve(WORKSPACE, p.segs) IN
    ~(Len(abs) >= Len(WORKSPACE) /\ SubSeq(abs, 1, Len(WORKSPACE)) = WORKSPACE)

Escapes(p) == p.t = "string" /\ (HasParentSegment(p) \/ ResolvesOutside(p))

LastPathIs(P(_)) == last.args.t = "object" /\ P(last.args.path)

\* C6: each of the five operations on a path with a parent-directory segment,
\* or resolving outside the workspace root, fails and leaves the workspace
\* unchanged.
C6_EscapingPathFails ==
    (last.name \in ToolNames /\ LastPathIs(Escapes))
    => /\ ~last.success
       /\ ~last.changed

LastContentBytes ==
    IF last.args.t = "object" /\ last.args.content.t = "string"
    THEN ByteLength(last.args.content.toks)
    ELSE 0

LastTarget == validatePath(last.args.path).abs

\* C7: write_file with content above the 32 KiB cap fails and leaves the file
\* as it was; after a successful write_file the written file is within the cap.
C7_OversizeWriteFails ==
    last.name = "write_file"
    => /\ LastContentBytes > HARD_CAP => (~last.success /\ ~last.changed)
       /\ last.success => ByteLength(fs[LastTarget].content) <= HARD_CAP

\* C8: append_file with a chunk above the 8 KiB chunk cap fails.
C8_OversizeChunkFails ==
    (last.name = "append_file" /\ LastContentBytes > CHUNK_CAP) => ~last.success

IsPrefix(a, b) == Len(a) <= Len(b) /\ SubSeq(b, 1, Len(a)) = a

\* C9: an append_file call that would take the file above the 32 KiB cap
\* fails, and the bytes of the earlier successful calls are preserved.
C9_AppendOverCapFails ==
    (/\ last.name = "append_file"
     /\ last.args.t = "object"
     /\ last.args.content.t = "string"
     /\ validatePath(last.args.path).ok
     /\ ByteLength(last.before) + LastContentBytes > HARD_CAP)
    => /\ ~last.success
       /\ last.before # <<>> =>
             (IsFile(fs, LastTarget) /\ IsPrefix(last.before, fs[LastTarget].content))

StringPaths == {p \in GwPaths : p.t = "string"}
StringContents == {c \in GwContents : c.t = "string"}

\* C10: from every reachable workspace, for every path and content on which
\* write_file succeeds, the file's bytes are then exactly the content, and
\* a second and a third identical call succeed and change nothing.
C10_WriteIdempotent ==
    /\ \A p \in StringPaths, c \in StringContents :
          LET r1 == handleWriteFile(fs, Args(p, c))
              r2 == handleWriteFile(r1.fs, Args(p, c))
              r3 == handleWriteFile(r2.fs, Args(p, c))
              abs == validatePath(p).abs
          IN  r1.success =>
                 /\ IsFile(r1.fs, abs)
                 /\ r1.fs[abs].content = c.toks
                 /\ r2.success /\ r2.fs = r1.fs
                 /\ r3.success /\ r3.fs = r1.fs
    /\ (last.name = "write_file" /\ last.success)
          => fs[LastTarget].content = last.args.content.toks

\* a write_file has replaced a file that held two chunks or more (a write
\* followed by appends) by its one content
C10_Witness ==
    /\ last.name = "write_file"
    /\ last.success
    /\ Len(last.before) >= 2
    /\ fs[LastTarget].content = last.args.content.toks
    /\ Len(last.args.content.toks) = 1

-----------------------------------------------------------------------------
(* Claims C11-C20 *)

\* C11: write_file(p, c0) followed by successful append_file(p, c1) and
\* append_file(p, c2) leaves c0 c1 c2 in call order, of the summed size;
\* append_file on an absent path creates the file with exactly the chunk;
\* every successful append_file leaves the earlier bytes followed by the chunk.
C11_AppendConcatenates ==
    /\ \A c0 \in StringContents, c1 \in StringContents, c2 \in StringContents :
          LET r0 == handleWriteFile(fs, Args(pIndex, c0))
              r1 == handleAppendFile(r0.fs, Args(pIndex, c1))
              r2 == handleAppendFile(r1.fs, Args(pIndex, c2))
              abs == validatePath(pIndex).abs
          IN  (r0.success /\ r1.success /\ r2.success) =>
                 /\ IsFile(r2.fs, abs)
                 /\ r2.fs[abs].content = c0.toks \o c1.toks \o c2.toks
                 /\ ByteLength(r2.fs[abs].content) =
                       ByteLength(c0.toks) + ByteLength(c1.toks)
                       + ByteLength(c2.toks)
    /\ \A c \in StringContents :
          LET r == handleAppendFile(fs, Args(pNested, c))
              abs == validatePath(pNested).abs
          IN  /\ ~existsSync(fs, abs)
              /\ r.success
              /\ IsFile(r.fs, abs)
              /\ r.fs[abs].content = c.toks
    /\ (last.name = "append_file" /\ last.success)
          => /\ IsFile(fs, LastTarget)
             /\ fs[LastTarget].content = last.before \o last.args.content.toks
             /\ ByteLength(fs[LastTarget].content) =
                   ByteLength(last.before) + LastContentBytes

\* a third call appended its chunk to a file that held two chunks
C11_Witness ==
    /\ last.name = "append_file"
    /\ last.success
    /\ Len(last.before) = 2
    /\ fs[LastTarget].content = last.before \o last.args.content.toks

\* C12: the step on which the calls on one (tool, path) pair have failed three
\* times in a row, within one turn or across turns, sets the circuit breaker
\* result naming that tool, path, error and a count of 3 and leaves the loop;
\* once the breaker is set no tool call and no request follows, and the run
\* returns the breaker's record.
C12_BreakerTrips ==
    [][/\ (/\ pc = "tools"
           /\ pc' # "threw"
           /\ failuresInARow(streak', Pair(toolUses[idx])) >= MAX_REPEATED_FAILURES)
          => /\ pc' = "validate"
             /\ circuitBreakerResult' =
                   [t |-> "object", success |-> FALSE,
                    error_code |-> "CIRCUIT_BREAKER",
                    tool |-> toolUses[idx].name,
                    path |-> IF HasPath(toolUses[idx]) THEN toolUses[idx].input.path
                             ELSE JsUndefined,
                    tool_use_id |-> toolUses[idx].id,
                    last_error |->
                        executeTool(fs, toolUses[idx].name, toolUses[idx].input).error,
                    failures |-> 3]
       /\ circuitBreakerResult # JsUndefined
          => /\ pc' \in {"validate", "done", "threw"}
             /\ fs' = fs
             /\ streak' = streak
             /\ turnCount' = turnCount
       /\ (pc' = "done" /\ circuitBreakerResult # JsUndefined)
          => returned' = circuitBreakerResult
      ]_vars

\* a run whose third turn held the third failure in a row of one call has
\* returned the breaker's record
C12_Witness ==
    /\ pc = "done"
    /\ turnCount = 3
    /\ returned.error_code = "CIRCUIT_BREAKER"
    /\ returned.failures = 3
    /\ returned.tool = "write_file"
    /\ returned.path = pParentFirst
    /\ returned.tool_use_id = ToolUseId(3, 1)
    /\ Len(messages) = 6

\* `${name}:${path || id}` for a (tool, path) pair
KeyOfPair(pair) ==
    pair[1] \o ":" \o (IF pair[2].t = "id" THEN pair[2].id ELSE PathText(pair[2]))

CounterOfPair(tracker, pair) == trackerGet(tracker, KeyOfPair(pair))

\* C13: the result of a call changes the counter of its own key only (a
\* failure adds one, a success leaves none); the counter of every other
\* (tool, path) pair stays as it was, and no two pairs have one counter.
C13_CountersApart ==
    [][(pc = "tools" /\ pc' # "threw")
       => LET toolUse == toolUses[idx]
              result == executeTool(fs, toolUse.name, toolUse.input)
          IN  /\ CounterOfPair(failureTracker', Pair(toolUse)) =
                    IF result.success THEN 0
                    ELSE CounterOfPair(failureTracker, Pair(toolUse)) + 1
              /\ \A q \in DOMAIN streak \ {Pair(toolUse)} :
                    CounterOfPair(failureTracker', q) =
                       CounterOfPair(failureTracker, q)
              /\ \A q1 \in DOMAIN streak', q2 \in DOMAIN streak' :
                    q1 # q2 => KeyOfPair(q1) # KeyOfPair(q2)
      ]_vars

\* argument records that depart from a tool's input schema
MalformedArgs(toolName) ==
    {JsUndefined}
    \cup {Args(p, c) : p \in {JsUndefined, JsNumber},
                       c \in {JsUndefined, JsNumber, ContentString(<<"a">>)}}
    \cup (IF toolName \in {"write_file", "append_file"}
          THEN {Args(pIndex, c) : c \in {JsUndefined, JsNumber}}
          ELSE {})

\* C14: executeTool returns success=false for an unknown tool name and for
\* every malformed argument record, and generate() is never rejected from
\* inside the loop over the tool calls.
C14_NoToolCallAborts ==
    /\ \A n \in ToolNames :
          \A a \in MalformedArgs(n) : ~executeTool(fs, n, a).success
    /\ \A a \in MalformedArgs("delete_file") \cup {Args(pIndex, ContentString(<<"a">>))} :
          ~executeTool(fs, "delete_file", a).success
    /\ pc = "threw" => toolUses = <<>>

LastMessage == messages[Len(messages)]

\* the while condition ended the loop: the last turn ran to the end of the
\* loop body (or was cut short by a continue), leaving a user message last
LoopExhausted ==
    /\ circuitBreakerResult = JsUndefined
    /\ turnCount >= MAX_TURNS
    /\ LastMessage.kind \in {"prompt", "ack", "results"}

\* a break of lines 668-671 or 683-686 ended the loop
NaturalCompletion ==
    /\ circuitBreakerResult = JsUndefined
    /\ LastMessage.kind \in {"reply", "nudge"}

\* C15: a run whose loop ended because the turns were used up reports the
\* failure TurnBudgetExceeded, never a success.
C15_TurnBudgetExceeded ==
    (pc = "done" /\ LoopExhausted)
    => /\ ~returned.success
       /\ returned.error_code = "TURN_BUDGET_EXCEEDED"

\* C16: a run that has ended, by a report or by an error of the oracle
\* request, has executed the validator and listed the workspace.
C16_ValidatedBeforeEnd ==
    pc \in {"done", "threw"}
    => /\ validation # JsUndefined
       /\ listing # JsUndefined
       /\ validation.ok = validateWorkspace(fs, projectType).ok
       /\ listing.listed

\* C17: a run that ended by natural completion with the validator returning
\* ok=false reports the failure VALIDATION_FAILED with the validator's errors;
\* no run reports a success when the validator returned ok=false.
C17_ValidationFailed ==
    pc = "done"
    => /\ validation = [t |-> "object",
                        ok |-> validateWorkspace(fs, projectType).ok,
                        errors |-> validateWorkspace(fs, projectType).errors,
                        warnings |-> validateWorkspace(fs, projectType).warnings]
       /\ (NaturalCompletion /\ ~validation.ok)
             => returned = [t |-> "object", success |-> FALSE,
                            error_code |-> "VALIDATION_FAILED",
                            errors |-> validation.errors]
       /\ returned.success => validation.ok

\* a run that wrote package.json and ended on a reply without tool calls
\* reports the validator's forbidden-file and missing-file errors
C17_Witness ==
    /\ pc = "done"
    /\ NaturalCompletion
    /\ ~validation.ok
    /\ returned.error_code = "VALIDATION_FAILED"
    /\ returned.errors = {[kind |-> "forbidden", what |-> {<<"package.json">>}],
                          [kind |-> "missing", what |-> {<<"index.html">>}]}

InWorkspace(p) == existsSync(fs, WORKSPACE \o p)

\* the validator's missing-file errors are those of the unsatisfied entries
\* of the contract
MissingErrorsExact ==
    LET contract == REQUIRED_FILES(normalizedType(projectType)) IN
    /\ \A req \in contract :
          [kind |-> "missing", what |-> req] \in validation.errors
          <=> ~\E p \in req : InWorkspace(p)
    /\ \A e \in validation.errors : e.kind = "missing" => e.what \in contract
    /\ projectType \in {"node", "api"}
          => ([kind |-> "missing", what |-> {<<"server.js">>, <<"index.js">>}]
                 \in validation.errors
              <=> (~InWorkspace(<<"server.js">>) /\ ~InWorkspace(<<"index.js">>)))

OnlyIndexHtml == DOMAIN fs = {<<>>, WORKSPACE, WORKSPACE \o <<"index.html">>}

\* C18: the missing-required-file errors are exactly those of the unsatisfied
\* entries of the contract (an alternative set is satisfied by any of its
\* paths), and a static workspace holding only index.html yields ok=true.
C18_RequiredFiles ==
    pc = "validated"
    => /\ MissingErrorsExact
       /\ (projectType = "static" /\ OnlyIndexHtml) => validation.ok

\* C18 as amended: the same, for a static workspace holding only an
\* index.html of at most 32 KiB.
C18_RequiredFilesWithinCap ==
    pc = "validated"
    => /\ MissingErrorsExact
       /\ (/\ projectType = "static"
           /\ OnlyIndexHtml
           /\ ByteLength(fs[WORKSPACE \o <<"index.html">>].content) <= HARD_CAP)
          => validation.ok

\* a node workspace with index.js (holding the health route) and neither
\* server.js nor package.json: one missing-file error, for package.json
C18_Witness ==
    /\ pc = "validated"
    /\ projectType = "node"
    /\ InWorkspace(<<"index.js">>)
    /\ ~InWorkspace(<<"server.js">>)
    /\ validation.errors = {[kind |-> "missing", what |-> {<<"package.json">>}]}

\* C19: for a static run whose workspace holds package.json the validator
\* returns ok=false with a forbidden-file error, index.html present or not.
C19_ForbiddenFile ==
    (pc = "validated" /\ projectType = "static" /\ InWorkspace(<<"package.json">>))
    => /\ ~validation.ok
       /\ [kind |-> "forbidden", what |-> {<<"package.json">>}] \in validation.errors

\* a static workspace with index.html and package.json: the forbidden-file
\* error is the only one
C19_Witness ==
    /\ pc = "validated"
    /\ projectType = "static"
    /\ IsFile(fs, WORKSPACE \o <<"index.html">>)
    /\ IsFile(fs, WORKSPACE \o <<"package.json">>)
    /\ ~validation.ok
    /\ validation.errors = {[kind |-> "forbidden", what |-> {<<"package.json">>}]}

\* one of the server entry files that exist holds a health route
SomeServerFileHasRoute ==
    \E i \in 1..Len(serverFiles) :
        /\ IsFile(fs, WORKSPACE \o serverFiles[i])
        /\ hasHealthRoute(fs[WORKSPACE \o serverFiles[i]].content)

\* C20: for a node-api workspace the validator returns, with ok=false and a
\* missing-health-endpoint error when no server entry file that exists holds
\* a health route, and with no such error when one of them does.
C20_HealthEndpoint ==
    (pc \in {"validated", "threw"} /\ normalizedType(projectType) = "node")
    => /\ pc = "validated"
       /\ ~SomeServerFileHasRoute
             => /\ ~validation.ok
                /\ [kind |-> "no_health", what |-> {}] \in validation.errors
       /\ SomeServerFileHasRoute
             => [kind |-> "no_health", what |-> {}] \notin validation.errors

-----------------------------------------------------------------------------
(* Claims C21-C30 *)

\* the files of the workspace tree
TreeFiles ==
    {q \in DOMAIN fs : /\ IsFile(fs, q)
                       /\ Len(q) > Len(WORKSPACE)
                       /\ SubSeq(q, 1, Len(WORKSPACE)) = WORKSPACE}

TooLargeError(q) == [kind |-> "too_large", what |-> {relative(q)}]
LargeWarning(q) == [kind |-> "large", what |-> {relative(q)}]

\* C21: every file of the tree above 32 KiB has a validator error; every file
\* above 16 KiB and at most 32 KiB has a warning and no error; ok holds iff
\* the error list is empty, whatever the warnings.
C21_SizeCeilings ==
    pc = "validated"
    => /\ \A q \in TreeFiles :
             LET size == ByteLength(fs[q].content) IN
             /\ size > HARD_CAP => TooLargeError(q) \in validation.errors
             /\ (size > WARN_SIZE /\ size <= HARD_CAP)
                   => /\ LargeWarning(q) \in validation.warnings
                      /\ TooLargeError(q) \notin validation.errors
             /\ size <= WARN_SIZE
                   => /\ LargeWarning(q) \notin validation.warnings
                      /\ TooLargeError(q) \notin validation.errors
       /\ validation.ok <=> validation.errors = {}

\* a workspace with a nested file above the cap and a file of exactly 32 KiB:
\* one error, one warning
C21_Witness ==
    /\ pc = "validated"
    /\ projectType = "static"
    /\ validation.errors = {[kind |-> "too_large", what |-> {<<"src", "server.js">>}]}
    /\ validation.warnings = {[kind |-> "large", what |-> {<<"index.html">>}]}
    /\ ByteLength(fs[WORKSPACE \o <<"index.html">>].content) = HARD_CAP
    /\ ~validation.ok

\* the texts of the replies of a run
ReplyTexts == {tProse, Text(TRUE, TRUE, mOk)}

\* the messages a step appended
Appended == SubSeq(messages', Len(messages) + 1, Len(messages'))

\* C22: the step that processes a reply stopped by max_tokens appends the
\* continuation nudge and does not end the loop: the tool calls of the reply
\* or the next request follow.
C22_TruncatedContinues ==
    [][\A text \in ReplyTexts, uses \in ReplyUses :
          ProcessReply(text, "max_tokens", uses)
          => /\ \E i \in 1..Len(Appended) : Appended[i] = NudgeMessage
             /\ pc' \in {"tools", "loop"}
      ]_vars

\* C23: a rate-limited attempt leaves the conversation, the workspace, the
\* failure counters and the results as they were and keeps the turn counted;
\* once MAX_TURNS turns are counted the loop ends without a further request,
\* also when no reply was ever processed.
C23_RateLimitKeepsTurn ==
    [][/\ RateLimited
          => /\ messages' = messages
             /\ fs' = fs
             /\ toolResults' = toolResults
             /\ failureTracker' = failureTracker
             /\ streak' = streak
             /\ turnCount' = turnCount
             /\ turnCount >= 1
             /\ pc' = "loop"
       /\ (pc = "loop" /\ turnCount >= MAX_TURNS)
          => /\ pc' = "validate"
             /\ turnCount' = turnCount
             /\ messages' = messages
      ]_vars

\* every request of the run was rate limited: the run has ended with the
\* prompt as its only message and an untouched workspace
C23_Witness ==
    /\ pc = "done"
    /\ turnCount = MAX_TURNS
    /\ messages = <<PromptMessage>>
    /\ fs = FsInit
    /\ streak = EmptyTracker

\* a measure of what is left of a run: the turns not yet started, then the
\* position inside the turn (request sent, calls left, back at the while)
Rank ==
    CASE pc \in {"done", "threw"} -> 0
      [] pc = "validate" -> 1
      [] pc = "loop" -> (MAX_TURNS - turnCount) * 10 + 2
      [] pc = "await" -> (MAX_TURNS - turnCount) * 10 + 11
      [] pc = "tools" -> (MAX_TURNS - turnCount) * 10 + 3 + Len(toolUses) - idx

\* C24: the requests of a run are counted by turnCount, which never exceeds
\* MAX_TURNS, and every step brings the run nearer to its end (a measure
\* bounded below decreases), so the loop terminates whatever the oracle does.
C24_BoundedRequests ==
    [][/\ turnCount' <= MAX_TURNS
       /\ (pc = "loop" /\ pc' = "await") <=> turnCount' = turnCount + 1
       /\ turnCount' >= turnCount
       /\ Rank' < Rank
       /\ Rank' >= 0
      ]_vars

\* a run that made MAX_TURNS requests, each answered by tool calls, has ended
C24_Witness ==
    /\ pc = "done"
    /\ turnCount = MAX_TURNS
    /\ Len(messages) >= 1 + 2 * MAX_TURNS
    /\ LastMessage.kind = "results"

\* the user message that answers the calls of toolUses, one result per call
ResultsFor(uses) == Message("user", "results", tProse, Ids(uses))

\* C25: a reply with tool calls (stop_reason tool_use or max_tokens) starts
\* the execution of its calls at the first, with the reply as the last message;
\* each step executes the next call once, and after the last call the message
\* appended right after the reply holds one result per call, in order, tagged
\* with the call ids.
C25_ToolCallsAnswered ==
    [][/\ \A text \in ReplyTexts, stop \in {"tool_use", "max_tokens"},
             uses \in ReplyUses \ {<<>>} :
             ProcessReply(text, stop, uses)
             => /\ pc' = "tools"
                /\ idx' = 1
                /\ toolUses' = WithIds(uses, turnCount)
                /\ toolResults' = <<>>
                /\ messages'[Len(messages')] =
                      Message("assistant", "reply", text, Ids(toolUses'))
       /\ (pc = "tools" /\ circuitBreakerResult' = JsUndefined)
          => /\ pc' \in {"tools", "loop"}
             /\ fs' = executeTool(fs, toolUses[idx].name, toolUses[idx].input).fs
             /\ pc' = "tools"
                  => /\ idx' = idx + 1
                     /\ idx' <= Len(toolUses)
                     /\ toolUses' = toolUses
                     /\ Len(toolResults') = idx
                     /\ toolResults'[idx].tool_use_id = toolUses[idx].id
                     /\ SubSeq(toolResults', 1, idx - 1) = toolResults
                     /\ messages' = messages
             /\ pc' = "loop"
                  => /\ idx = Len(toolUses)
                     /\ Len(toolResults) = idx - 1
                     /\ messages' = Append(messages, ResultsFor(toolUses))
                     /\ messages[Len(messages)].kind = "reply"
                     /\ messages[Len(messages)].ids = Ids(toolUses)
      ]_vars

\* C26: a reply with stop_reason end_turn and no tool call, arriving with no
\* breaker result set and not taken by the manifest gate (it holds no manifest,
\* or a manifest was accepted before), ends the loop on that turn with no
\* further request; a run that ended so is reported a success when the
\* validator returned ok.
C26_NaturalCompletion ==
    [][/\ \A text \in ReplyTexts :
             (/\ ProcessReply(text, "end_turn", <<>>)
              /\ circuitBreakerResult = JsUndefined
              /\ extractManifest(text) = JsUndefined \/ ManifestAccepted(messages))
             => /\ pc' = "validate"
                /\ messages' =
                      Append(messages, Message("assistant", "reply", text, <<>>))
                /\ turnCount' = turnCount
       /\ (pc' = "done" /\ NaturalCompletion /\ validation'.ok)
             => /\ returned'.success
                /\ returned'.turns = turnCount
      ]_vars

\* the last reply among the messages
LastReplyIds ==
    LET is == {i \in 1..Len(messages) : messages[i].kind = "reply"} IN
    IF is = {} THEN <<>>
    ELSE messages[CHOOSE i \in is : \A j \in is : j <= i].ids

\* C27: while a request is in flight no call is pending or executed; calls
\* are executed only after their reply was received, one per step in the order
\* of the reply; a request is sent only when every call of the last reply has
\* returned.
C27_OneExchangeInFlight ==
    [][/\ pc' = "await"
          => /\ pc = "loop"
             /\ toolUses' = <<>>
             /\ toolResults' = <<>>
             /\ fs' = fs
       /\ pc' = "tools"
          => /\ pc \in {"await", "tools"}
             /\ toolUses' # <<>>
             /\ idx' \in 1..Len(toolUses')
             /\ Len(toolResults') = idx' - 1
             /\ pc = "await" => idx' = 1 /\ fs' = fs
             /\ pc = "tools" => idx' = idx + 1 /\ toolUses' = toolUses
       /\ (fs' # fs \/ streak' # streak \/ toolResults' # toolResults)
          => /\ pc = "tools"
             /\ LastReplyIds = Ids(toolUses)
             /\ fs' = executeTool(fs, toolUses[idx].name, toolUses[idx].input).fs
      ]_vars

\* the third request of a run is in flight after a reply with several calls
\* was answered in full
C27_Witness ==
    /\ pc = "await"
    /\ turnCount = 3
    /\ LastMessage.kind = "results"
    /\ Len(LastMessage.ids) = 3
    /\ LastMessage.ids = LastReplyIds
    /\ toolUses = <<>>

\* the text holds a manifest block: a fenced JSON object with a files array
HoldsManifest(text) == text.fence /\ text.parses /\ text.files.t = "array"

C29_AppendOnly ==
    [][/\ IsPrefix(messages, messages')
       /\ Len(messages') >= Len(messages)
       /\ \A i \in 1..Len(messages) : messages'[i] = messages[i]
      ]_vars

\* a run of three turns with tool calls has ended: the prompt is still first
\* and every reply is still followed by its results
C29_Witness ==
    /\ pc = "done"
    /\ Len(messages) = 7
    /\ messages[1] = PromptMessage
    /\ \A i \in {2, 4, 6} :
          /\ messages[i].kind = "reply"
          /\ messages[i + 1].kind = "results"
          /\ messages[i + 1].ids = messages[i].ids

\* C30: for an explicit project type that is no key of CONTRACT_MAP the
\* validator raises no missing-required-file and no forbidden-file error.
C30_UnknownTypeNoContract ==
    (pc = "validated" /\ projectType \notin CONTRACT_MAP)
    => \A e \in validation.errors : e.kind \notin {"missing", "forbidden"}

\* ---------------------------------------------------------------------
\* Project type of a run: PROJECT_TYPE from the environment, else inferred
\* from the prompt.  A prompt is modelled by the set of keywords its
\* lower-cased text includes; no keyword is a substring of another, so
\* every subset is the keyword set of some text.
\* ---------------------------------------------------------------------
FullstackKeywords == {"next.js", "nextjs"}
BackendKeywords == {"express", "api server", "backend"}
UiKeywords == {"react", "vite", "spa"}
StaticKeywords == {"static", "html", "landing page"}
Keywords ==
    FullstackKeywords \cup BackendKeywords \cup UiKeywords \cup StaticKeywords

includesAny(lower, words) == lower \cap words /= {}

inferProjectTypeBackendFirst(lower) ==
    IF includesAny(lower, BackendKeywords) THEN "node"
    ELSE IF includesAny(lower, FullstackKeywords) THEN "nextjs"
    ELSE IF includesAny(lower, UiKeywords) THEN "vite"
    ELSE IF includesAny(lower, StaticKeywords) THEN "static"
    ELSE "static"

inferProjectType(lower) ==
    IF includesAny(lower, FullstackKeywords) THEN "nextjs"
    ELSE IF includesAny(lower, BackendKeywords) THEN "node"
    ELSE IF includesAny(lower, UiKeywords) THEN "vite"
    ELSE IF includesAny(lower, StaticKeywords) THEN "static"
    ELSE "static"

\* getProjectType with PROJECT_TYPE set
TypeFromEnv ==
    /\ pc = "start"
    /\ \E envType \in {"node", "custom"} : projectType' = envType
    /\ pc' = "env"
    /\ UNCHANGED <<fs, turnCount, messages, toolUses, idx, toolResults,
                   failureTracker, circuitBreakerResult, returned, last,
                   opCount, validation, listing, streak>>

\* getProjectType with PROJECT_TYPE unset
TypeInferred ==
    /\ pc = "start"
    /\ projectType' = inferProjectType(messages[1].text.includes)
    /\ pc' = "inferred"
    /\ UNCHANGED <<fs, turnCount, messages, toolUses, idx, toolResults,
                   failureTracker, circuitBreakerResult, returned, last,
                   opCount, validation, listing, streak>>

InitInfer ==
    /\ fs = FsInit
    /\ pc = "start"
    /\ turnCount = 0
    /\ messages \in {<<Message("user", "prompt", [includes |-> lower], <<>>)>> :
                        lower \in SUBSET Keywords}
    /\ toolUses = <<>>
    /\ idx = 0
    /\ toolResults = <<>>
    /\ failureTracker = EmptyTracker
    /\ circuitBreakerResult = JsUndefined
    /\ returned = JsUndefined
    /\ projectType = JsUndefined
    /\ last = NoCall
    /\ opCount = 0
    /\ validation = JsUndefined
    /\ listing = JsUndefined
    /\ streak = EmptyTracker

NextInfer == TypeFromEnv \/ TypeInferred

SpecInfer == InitInfer /\ [][NextInfer]_vars

\* ---------------------------------------------------------------------
\* C31 .. C38
\* ---------------------------------------------------------------------

PromptIncludes == messages[1].text.includes

\* C31: the inferred project type is defined for every prompt and is one of
\* the four types; a fullstack keyword wins over every other keyword, a
\* backend keyword over UI and static keywords, a UI keyword over static
\* keywords, and a prompt with none of the keywords is static.
C31_InferencePriority ==
    /\ pc = "start" => ENABLED TypeInferred
    /\ pc = "inferred" =>
          /\ projectType \in {"nextjs", "node", "vite", "static"}
          /\ includesAny(PromptIncludes, FullstackKeywords)
                => projectType = "nextjs"
          /\ (/\ ~includesAny(PromptIncludes, FullstackKeywords)
              /\ includesAny(PromptIncludes, BackendKeywords))
                => projectType = "node"
          /\ (/\ ~includesAny(PromptIncludes,
                              FullstackKeywords \cup BackendKeywords)
              /\ includesAny(PromptIncludes, UiKeywords))
                => projectType = "vite"
          /\ ~includesAny(PromptIncludes, Keywords \ StaticKeywords)
                => projectType = "static"

\* a prompt that mentions a fullstack framework, a backend, a UI framework
\* and a static keyword has been inferred to be a nextjs project
C31_Witness ==
    /\ pc = "inferred"
    /\ {"nextjs", "express", "react", "landing page"} \subseteq PromptIncludes
    /\ projectType = "nextjs"

\* ---------------------------------------------------------------------
\* The minimal driver, src/unnamed/part_000: four tools whose handlers
\* have no try/catch, and run() with its for loop.  A handler either
\* returns a result or throws; what it did to the filesystem before it
\* threw stays done.
\* ---------------------------------------------------------------------
MinReturn(f, success, e) ==
    [threw |-> FALSE, success |-> success, error |-> e, fs |-> f]
MinThrow(f, e) == [threw |-> TRUE, success |-> FALSE, error |-> e, fs |-> f]

\* String(inputPath).replace(/^\/+/, ""), as segments
MinClean(inputPath) ==
    CASE inputPath.t = "string" -> inputPath.segs
      [] inputPath.t = "undefined" -> <<"undefined">>
      [] inputPath.t = "number" -> <<"5">>

\* clean.includes("..")
MinIncludesDotDot(segs) ==
    \E i \in 1..Len(segs) : EndsWithDotDot(segs[i]) \/ HasDotDotBackslash(segs[i])

\* abs === base || abs.startsWith(base + path.sep)
MinInsideBase(abs) ==
    \/ abs = WORKSPACE
    \/ Len(abs) > Len(WORKSPACE) /\ SubSeq(abs, 1, Len(WORKSPACE)) = WORKSPACE

\* validatePath of part_000, lines 60-71: it throws, it never returns a failure
MinValidatePath(inputPath) ==
    CASE MinIncludesDotDot(MinClean(inputPath)) ->
            [ok |-> FALSE, err |-> "Path traversal not allowed", abs |-> <<>>]
      [] ~MinInsideBase(resolve(WORKSPACE, MinClean(inputPath))) ->
            [ok |-> FALSE, err |-> "Path outside workspace", abs |-> <<>>]
      [] OTHER ->
            [ok |-> TRUE, err |-> "", abs |-> resolve(WORKSPACE, MinClean(inputPath))]

MinHandleWriteFile(f, args) ==
    IF args.t # "object" THEN MinThrow(f, "TypeError")
    ELSE LET v == MinValidatePath(args.path) IN
    IF ~v.ok THEN MinThrow(f, v.err)
    ELSE LET m == mkdirSync(f, dirname(v.abs)) IN
    IF ~m.ok THEN MinThrow(m.fs, m.err)
    ELSE IF args.content.t # "string" THEN MinThrow(m.fs, "TypeError")
    ELSE LET w == writeFileSync(m.fs, v.abs, args.content.toks) IN
    IF ~w.ok THEN MinThrow(m.fs, w.err)
    ELSE MinReturn(w.fs, TRUE, "")

MinHandleReadFile(f, args) ==
    IF args.t # "object" THEN MinThrow(f, "TypeError")
    ELSE LET v == MinValidatePath(args.path) IN
    IF ~v.ok THEN MinThrow(f, v.err)
    ELSE IF ~existsSync(f, v.abs) THEN MinThrow(f, "ENOENT")
    ELSE IF IsDir(f, v.abs) THEN MinThrow(f, "EISDIR")
    ELSE MinReturn(f, TRUE, "")

MinHandleListDirectory(f, args) ==
    IF args.t # "object" THEN MinThrow(f, "TypeError")
    ELSE LET v == MinValidatePath(args.path) IN
    IF ~v.ok THEN MinThrow(f, v.err)
    ELSE IF ~existsSync(f, v.abs) THEN MinThrow(f, "ENOENT")
    ELSE IF ~IsDir(f, v.abs) THEN MinThrow(f, "ENOTDIR")
    ELSE MinReturn(f, TRUE, "")

MinHandleCreateDirectory(f, args) ==
    IF args.t # "object" THEN MinThrow(f, "TypeError")
    ELSE LET v == MinValidatePath(args.path) IN
    IF ~v.ok THEN MinThrow(f, v.err)
    ELSE LET m == mkdirSync(f, v.abs) IN
    IF ~m.ok THEN MinThrow(m.fs, m.err)
    ELSE MinReturn(m.fs, TRUE, "")

execTool(f, name, args) ==
    CASE name = "write_file" -> MinHandleWriteFile(f, args)
      [] name = "read_file" -> MinHandleReadFile(f, args)
      [] name = "list_directory" -> MinHandleListDirectory(f, args)
      [] name = "create_directory" -> MinHandleCreateDirectory(f, args)
      [] OTHER -> MinReturn(f, FALSE, "Unknown tool")

\* the tool_use lists of the replies of a run of the minimal driver
MinReplyUses ==
    {<<>>,
     <<uWriteIndex>>,
     <<uWriteIndex, uReadIndex>>,
     <<uMkdir, Use("list_directory", Args(pDot, JsUndefined))>>,
     <<uUnknown>>,
     <<uWriteEscape>>,
     <<uReadEscape>>,
     <<Use("write_file", Args(PathString(0, <<"a..">>), ContentString(<<"a">>)))>>,
     <<Use("create_directory", Args(pParentLast, JsUndefined))>>,
     <<Use("read_file", Args(PathString(0, <<"missing.txt">>), JsUndefined))>>,
     <<uWriteIndex,
       Use("list_directory", Args(PathString(0, <<"missing.txt">>), JsUndefined))>>}

MinResult(toolUse, success) == [tool_use_id |-> toolUse.id, success |-> success]

\* client.messages.create resolves: lines 119-129
RunRequest ==
    /\ pc = "run"
    /\ turnCount < MAX_TURNS
    /\ \E uses \in MinReplyUses :
          LET tools == WithIds(uses, turnCount + 1) IN
          /\ messages' = Append(messages,
                                Message("assistant", "reply", tProse, Ids(tools)))
          /\ toolUses' = tools
          /\ IF tools = <<>>
             THEN pc' = "listing" /\ idx' = 0
             ELSE pc' = "tools" /\ idx' = 1
    /\ toolResults' = <<>>
    /\ UNCHANGED <<fs, turnCount, failureTracker, circuitBreakerResult,
                   returned, projectType, last, opCount, validation,
                   listing, streak>>

\* the for loop ends with i = MAX_TURNS
RunLoopEnd ==
    /\ pc = "run"
    /\ turnCount >= MAX_TURNS
    /\ pc' = "listing"
    /\ UNCHANGED <<fs, turnCount, messages, toolUses, idx, toolResults,
                   failureTracker, circuitBreakerResult, returned,
                   projectType, last, opCount, validation, listing, streak>>

\* one element of tools.map, lines 131-137; a throw rejects run() and the
\* catch of line 144 ends the process with exit code 1
RunExecTool ==
    /\ pc = "tools"
    /\ LET toolUse == toolUses[idx]
           r == execTool(fs, toolUse.name, toolUse.input)
       IN  /\ fs' = r.fs
           /\ IF r.threw
              THEN /\ pc' = "crashed"
                   /\ returned' = Threw
                   /\ UNCHANGED <<turnCount, messages, idx, toolResults>>
              ELSE /\ returned' = returned
                   /\ IF idx < Len(toolUses)
                      THEN /\ idx' = idx + 1
                           /\ toolResults' =
                                 Append(toolResults, MinResult(toolUse, r.success))
                           /\ UNCHANGED <<pc, turnCount, messages>>
                      ELSE /\ idx' = 0
                           /\ toolResults' = <<>>
                           /\ messages' =
                                 Append(messages,
                                        [role |-> "user", kind |-> "results",
                                         text |-> Append(toolResults,
                                                         MinResult(toolUse, r.success)),
                                         ids |-> Ids(toolUses)])
                           /\ turnCount' = turnCount + 1
                           /\ pc' = "run"
    /\ UNCHANGED <<toolUses, failureTracker, circuitBreakerResult, projectType,
                   last, opCount, validation, listing, streak>>

\* line 141: console.log(fs.readdirSync(WORKSPACE))
RunListing ==
    /\ pc = "listing"
    /\ listing' = {e.name : e \in readdirSync(fs, WORKSPACE)}
    /\ pc' = "done"
    /\ UNCHANGED <<fs, turnCount, messages, toolUses, idx, toolResults,
                   failureTracker, circuitBreakerResult, returned,
                   projectType, last, opCount, validation, streak>>

InitRun ==
    /\ fs = FsInit
    /\ pc = "run"
    /\ turnCount = 0
    /\ messages = <<PromptMessage>>
    /\ toolUses = <<>>
    /\ idx = 0
    /\ toolResults = <<>>
    /\ failureTracker = EmptyTracker
    /\ circuitBreakerResult = JsUndefined
    /\ returned = JsUndefined
    /\ projectType = JsUndefined
    /\ last = NoCall
    /\ opCount = 0
    /\ validation = JsUndefined
    /\ listing = JsUndefined
    /\ streak = EmptyTracker

NextRun == RunRequest \/ RunLoopEnd \/ RunExecTool \/ RunListing

SpecRun == InitRun /\ [][NextRun]_vars

\* the call is one of the hostile or malformed calls: its path holds "..", or
\* it reads or lists a path that does not exist
MinHostile(f, toolUse) ==
    /\ toolUse.name \in {"write_file", "read_file", "list_directory",
                         "create_directory"}
    /\ toolUse.input.t = "object"
    /\ \/ MinIncludesDotDot(MinClean(toolUse.input.path))
       \/ /\ toolUse.name \in {"read_file", "list_directory"}
          /\ ~existsSync(f, resolve(WORKSPACE, MinClean(toolUse.input.path)))

\* C32: in the minimal driver a hostile or malformed tool call is answered
\* with a failed tool result and the turn loop goes on: the process does not
\* end on it.
C32_HostileCallAnswered ==
    [][(pc = "tools" /\ MinHostile(fs, toolUses[idx]))
          => /\ pc' # "crashed"
             /\ \/ /\ pc' = "tools"
                   /\ toolResults' =
                         Append(toolResults, MinResult(toolUses[idx], FALSE))
                \/ /\ pc' = "run"
                   /\ messages'[Len(messages')].text =
                         Append(toolResults, MinResult(toolUses[idx], FALSE))
      ]_vars

\* the absolute path is the workspace root or below it
InsideRoot(abs) ==
    Len(abs) >= Len(WORKSPACE) /\ SubSeq(abs, 1, Len(WORKSPACE)) = WORKSPACE

ProbeSegments == {".", "..", "a..", "..\\x", "sub", "workspace2"}
ProbePaths ==
    {PathString(lead, segs) :
        lead \in {0, 1},
        segs \in UNION {[1..n -> ProbeSegments] : n \in 0..2}}

\* C33: whenever validatePath returns a path, that path is the workspace root
\* or a descendant of it; and every step of a run of tool calls creates or
\* modifies files and directories inside the workspace root only.
C33_WritesStayInside ==
    /\ [](\A p \in ProbePaths \cup GwPaths :
             validatePath(p).ok => InsideRoot(validatePath(p).abs))
    /\ [][\A q \in DOMAIN fs' :
             (q \notin DOMAIN fs \/ fs'[q] # fs[q]) => InsideRoot(q)]_vars

\* a write through a path ending in ".." has succeeded: it made the
\* directory sub inside the workspace, and nothing exists outside it
C33_Witness ==
    /\ last.name = "create_directory"
    /\ last.success
    /\ last.changed
    /\ last.args.path = pParentDeep
    /\ IsDir(fs, WORKSPACE \o <<"sub">>)
    /\ \A q \in DOMAIN fs : q = <<>> \/ InsideRoot(q)

\* C34: in the conversation of every request sent to the oracle, an assistant
\* turn that holds tool calls is followed at once by one user turn holding
\* the results of exactly those calls, and no two user turns are adjacent;
\* replies cut off at the token limit included.
C34_TurnsAlternate ==
    pc = "await" =>
        \A i \in 1..(Len(messages) - 1) :
            /\ ~(messages[i].role = "user" /\ messages[i + 1].role = "user")
            /\ (messages[i].kind = "reply" /\ messages[i].ids # <<>>)
                  => /\ messages[i + 1].kind = "results"
                     /\ messages[i + 1].ids = messages[i].ids

\* C35: a run that returns reports one outcome, which then stays: the
\* circuit breaker's record when the breaker tripped, whatever the validator
\* found; else VALIDATION_FAILED when the validation failed; and success
\* only when the breaker did not trip and the validation was ok.
C35_OutcomePrecedence ==
    /\ [](pc = "done" =>
            /\ circuitBreakerResult # JsUndefined
                  => /\ returned = circuitBreakerResult
                     /\ returned.error_code = "CIRCUIT_BREAKER"
                     /\ ~returned.success
            /\ (circuitBreakerResult = JsUndefined /\ ~validation.ok)
                  => /\ returned.error_code = "VALIDATION_FAILED"
                     /\ ~returned.success
            /\ returned.success
                  <=> (circuitBreakerResult = JsUndefined /\ validation.ok))
    /\ [](pc # "done" => returned \in {JsUndefined, Threw})
    /\ [][returned # JsUndefined => returned' = returned]_vars

\* the breaker tripped in a run whose workspace fails the validation, and
\* the run returned the breaker's record
C35_Witness ==
    /\ pc = "done"
    /\ circuitBreakerResult # JsUndefined
    /\ ~validation.ok
    /\ returned.error_code = "CIRCUIT_BREAKER"

\* C36: a call of any of the five operations, or of an unknown tool, that
\* returns success = false leaves the files and directories of the workspace
\* and every file's bytes as they were, after any earlier calls.
C36_FailureChangesNothing ==
    [][\A n \in ToolNames \cup {"delete_file"}, p \in GwPaths,
          c \in {ContentString(<<"a">>), ContentString(<<"b">>), JsUndefined} :
          (/\ pc = "gateway"
           /\ ~executeTool(fs, n, Args(p, c)).success
           /\ GwCall(n, Args(p, c)))
          => fs' = fs
      ]_vars

\* the key made of the tool name and the call id
IdKey(toolUse) == toolUse.name \o ":" \o toolUse.id

\* C37: a failing call without a path is counted under the key made of its
\* tool name and its own call id: the key is new, its counter becomes 1, and
\* the circuit breaker does not trip on it, however many such calls failed
\* before.
C37_PathlessFailuresApart ==
    [][(/\ pc = "tools"
        /\ ~logLineThrows(toolUses[idx])
        /\ ~HasPath(toolUses[idx])
        /\ ~executeTool(fs, toolUses[idx].name, toolUses[idx].input).success)
          => /\ IdKey(toolUses[idx]) \notin DOMAIN failureTracker
             /\ IdKey(toolUses[idx]) \in DOMAIN failureTracker'
             /\ failureTracker'[IdKey(toolUses[idx])] = 1
             /\ \A k \in DOMAIN failureTracker :
                   k \in DOMAIN failureTracker' /\ failureTracker'[k] = failureTracker[k]
             /\ circuitBreakerResult' = JsUndefined
             /\ pc' \in {"tools", "loop"}
      ]_vars

\* six write_file calls without a path have failed, three in each of two
\* turns; each has its own counter of 1 and the breaker has not tripped
C37_Witness ==
    /\ pc = "loop"
    /\ turnCount = 2
    /\ circuitBreakerResult = JsUndefined
    /\ \A t \in 1..2, i \in 1..3 :
          /\ ("write_file:" \o ToolUseId(t, i)) \in DOMAIN failureTracker
          /\ failureTracker["write_file:" \o ToolUseId(t, i)] = 1

SomeCounterAtThreshold ==
    \E k \in DOMAIN failureTracker : failureTracker[k] = MAX_REPEATED_FAILURES

\* C38: in a run that starts with an empty failure tracker every stored
\* counter is at least 1 and at most 3 at every point, and from the moment a
\* counter is 3 no tool call is executed and no request is sent to the
\* oracle.
C38_CountersBounded ==
    /\ [](\A k \in DOMAIN failureTracker :
             /\ failureTracker[k] >= 1
             /\ failureTracker[k] <= MAX_REPEATED_FAILURES)
    /\ [](SomeCounterAtThreshold => pc \in {"validate", "done", "threw"})
    /\ [][SomeCounterAtThreshold
            => /\ fs' = fs
               /\ failureTracker' = failureTracker
               /\ turnCount' = turnCount
               /\ messages' = messages
               /\ pc' \in {"validate", "done", "threw"}
         ]_vars

\* a run has ended with one counter at 3 and another counter below 3
C38_Witness ==
    /\ pc = "done"
    /\ SomeCounterAtThreshold
    /\ \E k \in DOMAIN failureTracker : failureTracker[k] < MAX_REPEATED_FAILURES
    /\ turnCount < MAX_TURNS

====
